---- MODULE Spec2Model ----
(***************************************************************************)
(* A model of torchio's Subject aggregate (data/subject.py) and of the     *)
(* uniform patch sampler (data/sampler/uniform.py).                        *)
(*                                                                         *)
(* Python objects that can be aliased live in two heaps: `images` (Image   *)
(* objects) and `lists` (the applied_transforms list objects).  A Subject  *)
(* holds references into them, once through its mapping (`items`) and once *)
(* through its instance __dict__ (`attrs`).  Unreachable objects are       *)
(* collected at the end of every step, as reference counting does.         *)
(***************************************************************************)
EXTENDS Integers, Sequences, FiniteSets, TLC

VARIABLES
    subjects,   \* name of a live Subject -> [items, attrs, hist]
    images,     \* heap: Image id -> [type, shape, data]
    lists,      \* heap: list id -> sequence of <<transform name, parameters>>
    result,     \* what the last call did: [op, on, raised, value]
    calls,      \* per Subject, the add_transform / clear_history calls made on it
    gen         \* the generator object of UniformSampler._generate_patches

vars == <<subjects, images, lists, result, calls, gen>>

-----------------------------------------------------------------------------
(* Bounds of the model *)

MaxInit == 3        \* entries of the mapping a Subject is constructed from
MaxHist == 2        \* add_transform calls made on one Subject between two clears
MaxCalls == 4       \* add_transform / clear_history calls logged per Subject
MaxPatches == 2     \* largest finite num_patches requested
MaxPulls == 3       \* next() requests made on one generator

(* Program constants *)

TolDenominator == 1000000   \* relative_tolerance = absolute_tolerance = 1e-6

INTENSITY == "intensity"
LABEL == "label"

-----------------------------------------------------------------------------
(* Small helpers *)

Abs(x) == IF x < 0 THEN -x ELSE x

Min(a, b) == IF a < b THEN a ELSE b

Range(f) == {f[x] : x \in DOMAIN f}

Rank(x, S) == Cardinality({y \in S : y < x})

\* The n smallest ids that are free in heap h.
FreshIds(h, n) ==
    LET free == (1..(Cardinality(DOMAIN h) + n)) \ DOMAIN h
    IN {x \in free : Rank(x, free) < n}

NthOf(S, n) == CHOOSE x \in S : Rank(x, S) = n

-----------------------------------------------------------------------------
(* Values stored in a Subject *)

ImageValue(id) == [kind |-> "image", ref |-> id, val |-> <<>>]
IntValue(n) == [kind |-> "int", ref |-> 0, val |-> <<n>>]
StrValue(s) == [kind |-> "str", ref |-> 0, val |-> s]

\* isinstance(value, Image)
IsImage(v) == v.kind = "image"

\* Ordered mapping operations of dict, on a sequence of [key, value] entries.
DictKeys(d) == {d[i].key : i \in 1..Len(d)}
DictGet(d, k) == d[CHOOSE i \in 1..Len(d) : d[i].key = k].value
DictSet(d, k, v) ==
    IF k \in DictKeys(d)
    THEN [i \in 1..Len(d) |-> IF d[i].key = k THEN [key |-> k, value |-> v] ELSE d[i]]
    ELSE Append(d, [key |-> k, value |-> v])
DictDel(d, k) == SelectSeq(d, LAMBDA e : e.key # k)

\* Image ids a Subject refers to, through its mapping or through its __dict__.
SubjectRefs(sub) ==
    {sub.items[i].value.ref : i \in {j \in 1..Len(sub.items) : IsImage(sub.items[j].value)}}
    \cup {sub.attrs[k].ref : k \in {a \in DOMAIN sub.attrs : IsImage(sub.attrs[a])}}

\* Object identities are arbitrary: at the end of a step the objects still
\* referred to are renumbered in the order a scan of the live Subjects (self
\* first; the mapping, then __dict__) meets them, and the others are dropped,
\* as reference counting does.
KeyOrder == <<"t1", "seg", "pet", "age", "name">>
SubjectOrder == <<"self", "ret">>

RefSeq(sub) ==
    [i \in 1..Len(sub.items) |->
        IF IsImage(sub.items[i].value) THEN sub.items[i].value.ref ELSE 0]
    \o [i \in 1..Len(KeyOrder) |->
        IF KeyOrder[i] \in DOMAIN sub.attrs /\ IsImage(sub.attrs[KeyOrder[i]])
        THEN sub.attrs[KeyOrder[i]].ref ELSE 0]

AllRefSeq(subs) ==
    (IF "self" \in DOMAIN subs THEN RefSeq(subs["self"]) ELSE <<>>)
    \o (IF "ret" \in DOMAIN subs THEN RefSeq(subs["ret"]) ELSE <<>>)

FirstPos(r, seq) == CHOOSE i \in 1..Len(seq) : seq[i] = r /\ \A j \in 1..(i - 1) : seq[j] # r

\* old image id -> new image id, for the ids the live Subjects refer to
Renumbering(subs) ==
    LET seq == AllRefSeq(subs)
        live == Range(seq) \ {0}
    IN [r \in live |->
          1 + Cardinality({q \in live : FirstPos(q, seq) < FirstPos(r, seq)})]

ListRenumbering(subs) ==
    [l \in {subs[s].hist : s \in DOMAIN subs} |->
        IF "self" \in DOMAIN subs /\ subs["self"].hist = l THEN 1
        ELSE IF "self" \in DOMAIN subs THEN 2 ELSE 1]

Renamed(v, m) == IF IsImage(v) THEN [v EXCEPT !.ref = m[v.ref]] ELSE v

CollectSubjects(subs) ==
    LET m == Renumbering(subs)
        lm == ListRenumbering(subs)
    IN [s \in DOMAIN subs |->
          [items |-> [i \in 1..Len(subs[s].items) |->
                        [key |-> subs[s].items[i].key,
                         value |-> Renamed(subs[s].items[i].value, m)]],
           attrs |-> [k \in DOMAIN subs[s].attrs |-> Renamed(subs[s].attrs[k], m)],
           hist |-> lm[subs[s].hist]]]
Collect(subs, h) ==
    LET m == Renumbering(subs)
    IN [i \in Range(m) |-> h[CHOOSE r \in DOMAIN m : m[r] = i]]
CollectLists(subs, L) ==
    LET lm == ListRenumbering(subs)
    IN [i \in Range(lm) |-> L[CHOOSE l \in DOMAIN lm : lm[l] = i]]

Outcome(op, on, raised, value) ==
    [op |-> op, on |-> on, raised |-> raised, value |-> value]

-----------------------------------------------------------------------------
(* Subject queries *)

\* get_images_dict keeping only the intensity images, whatever it is asked
get_images_dict_intensity(sub, h, intensity_only) ==
    SelectSeq(sub.items,
              LAMBDA e : IsImage(e.value) /\ h[e.value.ref].type = INTENSITY)

\* Subject.get_images_dict (include and exclude left at None)
get_images_dict(sub, h, intensity_only) ==
    SelectSeq(sub.items,
              LAMBDA e : /\ IsImage(e.value)
                         /\ (intensity_only => h[e.value.ref].type = INTENSITY))

\* Subject.get_images
get_images(sub, h, intensity_only) ==
    [i \in 1..Len(get_images_dict(sub, h, intensity_only)) |->
        h[get_images_dict(sub, h, intensity_only)[i].value.ref]]

\* Subject.__len__
SubjectLen(sub, h) == Len(get_images(sub, h, FALSE))

\* Subject._parse_images: TRUE when it raises TypeError
parse_images_raises(imgs) == Len(imgs) = 0

\* numpy.allclose(a, b, rtol, atol) on integer vectors:
\* |a_i - b_i| <= atol + rtol * |b_i| with atol = rtol = 1 / TolDenominator
AllClose(a, b) ==
    \A i \in 1..Len(a) : Abs(a[i] - b[i]) <= (1 + Abs(b[i])) \div TolDenominator

\* Subject.check_consistent_attribute('spatial_shape'): TRUE when it raises
\* RuntimeError.  Spatial shapes are numeric, so the TypeError fallback is not taken.
check_consistent_attribute_raises(sub, h) ==
    LET names_images == get_images_dict(sub, h, FALSE)
    IN \E i \in 2..Len(names_images) :
          ~AllClose(h[names_images[i].value.ref].shape,
                    h[names_images[1].value.ref].shape)

\* Subject.check_consistent_spatial_shape
check_consistent_spatial_shape_raises(sub, h) ==
    check_consistent_attribute_raises(sub, h)

\* Subject.get_first_image
get_first_image(sub, h) == get_images(sub, h, FALSE)[1]

\* Subject.update_attributes: self.__dict__.update(self)
update_attributes(sub) ==
    [sub EXCEPT !.attrs =
        [k \in (DOMAIN sub.attrs) \cup DictKeys(sub.items) |->
            IF k \in DictKeys(sub.items) THEN DictGet(sub.items, k) ELSE sub.attrs[k]]]

-----------------------------------------------------------------------------
(* Collaborators of Subject that live outside data/subject.py *)

\* Image.__getitem__(item) for a spatial index: a new Image cropped along the
\* first spatial axis to [lo, hi).
ImageGetItem(img, item) ==
    [img EXCEPT !.shape = [img.shape EXCEPT ![1] = Min(item.hi, img.shape[1]) - item.lo]]

\* value[item] for a metadata value: Python's int is not subscriptable, and str
\* accepts an int or a slice but no tuple.
MetaGetItemRaises(v, item) ==
    CASE v.kind = "int" -> "TypeError"
      [] v.kind = "str" /\ item.kind = "tuple" -> "TypeError"
      [] v.kind = "str" /\ item.kind = "int" /\ item.lo >= Len(v.val) -> "IndexError"
      [] OTHER -> "none"

MetaGetItem(v, item) ==
    StrValue(SubSeq(v.val, item.lo + 1, Min(item.hi, Len(v.val))))

-----------------------------------------------------------------------------
(* copy.deepcopy(self): every Image the Subject refers to (through the mapping  *)
(* or through __dict__) is copied once (the memo), and so is the                *)
(* applied_transforms list.  Yields the copy and the two heaps holding it.      *)

\* copy.copy in place of copy.deepcopy: the copy refers to the same objects
shallowcopy(sub, h, L) == [sub |-> sub, images |-> h, lists |-> L]

deepcopy(sub, h, L) ==
    LET refs == SubjectRefs(sub)
        ids == FreshIds(h, Cardinality(refs))
        memo == [r \in refs |-> NthOf(ids, Rank(r, refs))]
        old(id) == NthOf(refs, Rank(id, ids))
        cp(v) == IF IsImage(v) THEN ImageValue(memo[v.ref]) ELSE v
        lid == NthOf(FreshIds(L, 1), 0)
    IN [sub |-> [items |-> [i \in 1..Len(sub.items) |->
                               [key |-> sub.items[i].key, value |-> cp(sub.items[i].value)]],
                 attrs |-> [k \in DOMAIN sub.attrs |-> cp(sub.attrs[k])],
                 hist |-> lid],
        images |-> [id \in (DOMAIN h) \cup ids |-> IF id \in ids THEN h[old(id)] ELSE h[id]],
        lists |-> [l \in (DOMAIN L) \cup {lid} |-> IF l = lid THEN L[sub.hist] ELSE L[l]]]

-----------------------------------------------------------------------------
(* Subject operations.  Each leaves its outcome in `result`. *)

Done(op, on, raised, value) ==
    result' = Outcome(op, on, raised, value)

Failed(op, on, raised) ==
    /\ result' = Outcome(op, on, raised, <<>>)
    /\ UNCHANGED <<subjects, images, lists>>

\* The Subjects and the heaps after a step.
Commit(subs, h, L) ==
    /\ subjects' = CollectSubjects(subs)
    /\ images' = Collect(subs, h)
    /\ lists' = CollectLists(subs, L)

\* Subject.__init__(mapping) in heaps h and L: args is the mapping, an Image
\* entry carrying the Image the caller built for it.  Yields whether _parse_images
\* raises and, when it does not, the Subject and the heaps holding it.
Constructed(args, h, L) ==
    LET imgIdx == {i \in 1..Len(args) : args[i].kind = "image"}
        ids == FreshIds(h, Cardinality(imgIdx))
        idOf(i) == NthOf(ids, Rank(i, imgIdx))
        argOf(id) == args[NthOf(imgIdx, Rank(id, ids))]
        h2 == [id \in (DOMAIN h) \cup ids |->
                 IF id \in ids
                 THEN [type |-> argOf(id).type, shape |-> argOf(id).shape, data |-> 0]
                 ELSE h[id]]
        kwargs == [i \in 1..Len(args) |->
                     [key |-> args[i].key,
                      value |-> IF args[i].kind = "image"
                                THEN ImageValue(idOf(i))
                                ELSE [kind |-> args[i].kind, ref |-> 0, val |-> args[i].val]]]
        lid == NthOf(FreshIds(L, 1), 0)
        new == [items |-> kwargs, attrs |-> <<>>, hist |-> lid]
    IN [raises |-> parse_images_raises(get_images(new, h2, FALSE)),
        sub |-> update_attributes(new),
        images |-> h2,
        lists |-> (lid :> <<>>) @@ L]

\* self = Subject(mapping)
SubjectInit(args) ==
    /\ "self" \notin DOMAIN subjects
    /\ LET c == Constructed(args, images, lists)
       IN IF c.raises
          THEN Failed("__init__", "self", "TypeError")
          ELSE /\ Commit(("self" :> c.sub) @@ subjects, c.images, c.lists)
               /\ Done("__init__", "self", "none", <<>>)

\* Subject.add_image(image, image_name); isImage and nameIsStr are the two
\* isinstance tests, img the Image passed when it is one.
add_image(s, isImage, img, nameIsStr, image_name) ==
    /\ s \in DOMAIN subjects
    /\ IF ~isImage \/ ~nameIsStr
       THEN Failed("add_image", s, "ValueError")
       ELSE LET id == NthOf(FreshIds(images, 1), 0)
                sub == subjects[s]
                set == [sub EXCEPT !.items = DictSet(sub.items, image_name, ImageValue(id))]
            IN /\ Commit([subjects EXCEPT ![s] = update_attributes(set)],
                         (id :> img) @@ images, lists)
               /\ Done("add_image", s, "none", <<>>)

\* Subject.remove_image(image_name)
remove_image(s, image_name) ==
    /\ s \in DOMAIN subjects
    /\ LET sub == subjects[s]
           deleted == [sub EXCEPT !.items = DictDel(sub.items, image_name)]
       IN IF image_name \notin DictKeys(sub.items)
          THEN Failed("remove_image", s, "KeyError")
          ELSE IF image_name \notin DOMAIN sub.attrs
          THEN /\ Commit([subjects EXCEPT ![s] = deleted], images, lists)
               /\ Done("remove_image", s, "AttributeError", <<>>)
          ELSE /\ Commit([subjects EXCEPT ![s] =
                            [deleted EXCEPT !.attrs =
                                [k \in (DOMAIN sub.attrs) \ {image_name} |-> sub.attrs[k]]]],
                         images, lists)
               /\ Done("remove_image", s, "none", <<>>)

\* subject[image_name].set_data(tensor): the caller changes an image's data.
set_data(s, image_name, tensor) ==
    /\ s \in DOMAIN subjects
    /\ image_name \in DictKeys(subjects[s].items)
    /\ IsImage(DictGet(subjects[s].items, image_name))
    /\ images' = [images EXCEPT ![DictGet(subjects[s].items, image_name).ref].data = tensor]
    /\ UNCHANGED <<subjects, lists>>
    /\ Done("set_data", s, "none", <<>>)

\* add_transform inserting the record at the front of the history
add_transform_prepends(s, name, parameters_dict) ==
    /\ s \in DOMAIN subjects
    /\ lists' = [lists EXCEPT ![subjects[s].hist] = <<<<name, parameters_dict>>>> \o @]
    /\ UNCHANGED <<subjects, images>>
    /\ result' = Outcome("add_transform", s, "none", <<>>)

\* Subject.add_transform(transform, parameters_dict)
add_transform(s, name, parameters_dict) ==
    /\ s \in DOMAIN subjects
    /\ lists' = [lists EXCEPT ![subjects[s].hist] = Append(@, <<name, parameters_dict>>)]
    /\ UNCHANGED <<subjects, images>>
    /\ Done("add_transform", s, "none", <<>>)

\* clear_history leaving the history as it is
NotRebound(sub, L) == [sub |-> sub, lists |-> L]

\* self.applied_transforms = []: the attribute is bound to a new list.
Rebound(sub, L) ==
    LET lid == NthOf(FreshIds(L, 1), 0)
    IN [sub |-> [sub EXCEPT !.hist = lid], lists |-> (lid :> <<>>) @@ L]

\* Subject.clear_history()
clear_history(s) ==
    /\ s \in DOMAIN subjects
    /\ LET r == Rebound(subjects[s], lists)
       IN Commit([subjects EXCEPT ![s] = r.sub], images, r.lists)
    /\ Done("clear_history", s, "none", <<>>)

\* Subject.check_consistent_spatial_shape()
check_consistent_spatial_shape(s) ==
    /\ s \in DOMAIN subjects
    /\ UNCHANGED <<subjects, images, lists>>
    /\ Done("check_consistent_spatial_shape", s,
            IF check_consistent_spatial_shape_raises(subjects[s], images)
            THEN "RuntimeError" ELSE "none", <<>>)

\* The loop of __getitem__ over copied.items(): every value of the copy, Image or
\* not, is replaced by value[item]; cropped Images are new objects.
IndexItems(sub, h, item) ==
    LET imgIdx == {i \in 1..Len(sub.items) : IsImage(sub.items[i].value)}
        ids == FreshIds(h, Cardinality(imgIdx))
        idOf(i) == NthOf(ids, Rank(i, imgIdx))
        srcOf(id) == sub.items[NthOf(imgIdx, Rank(id, ids))].value.ref
    IN [sub |-> [sub EXCEPT !.items =
                    [i \in 1..Len(sub.items) |->
                        [key |-> sub.items[i].key,
                         value |-> IF i \in imgIdx
                                   THEN ImageValue(idOf(i))
                                   ELSE MetaGetItem(sub.items[i].value, item)]]],
        images |-> [id \in (DOMAIN h) \cup ids |->
                       IF id \in ids THEN ImageGetItem(h[srcOf(id)], item) ELSE h[id]]]

\* The first entry of the loop whose value[item] raises, 0 when none does.
FirstRaising(sub, item) ==
    LET bad == {i \in 1..Len(sub.items) :
                   /\ ~IsImage(sub.items[i].value)
                   /\ MetaGetItemRaises(sub.items[i].value, item) # "none"}
    IN IF bad = {} THEN 0 ELSE NthOf(bad, 0)

\* Subject.__getitem__(item) for a slice, int or tuple; the caller binds the
\* Subject returned to `ret`.
getitem(s, item) ==
    /\ s \in DOMAIN subjects
    /\ IF check_consistent_spatial_shape_raises(subjects[s], images)
       THEN Failed("__getitem__", s, "RuntimeError")
       ELSE LET c == deepcopy(subjects[s], images, lists)
                bad == FirstRaising(c.sub, item)
                x == IndexItems(c.sub, c.images, item)
            IN IF bad # 0
               THEN Failed("__getitem__", s,
                           MetaGetItemRaises(c.sub.items[bad].value, item))
               ELSE /\ Commit(("ret" :> x.sub) @@ subjects, x.images, c.lists)
                    /\ Done("__getitem__", s, "none", <<item>>)

-----------------------------------------------------------------------------
(* Transform history *)

\* get_subclasses(Transform): the names history records can be looked up under.
\* Mask is an IntensityTransform; Affine resamples (it has image_interpolation);
\* Flip and Affine are invertible.
KnownTransforms == {"Mask", "Flip", "Affine"}
IsIntensityTransform(name) == name = "Mask"
HasImageInterpolation(name) == name = "Affine"
IsInvertible(name) == name \in {"Flip", "Affine"}

\* name_to_transform[transform_name](**arguments)
Instance(name, arguments) ==
    [name |-> name, args |-> arguments,
     image_interpolation |-> IF HasImageInterpolation(name) THEN "linear" ELSE "absent"]

\* get_applied_transforms passing over the records whose name it does not know
RECURSIVE get_applied_transforms_skips(_, _, _)
get_applied_transforms_skips(applied, ignore_intensity, image_interpolation) ==
    IF applied = <<>>
    THEN [raised |-> "none", value |-> <<>>]
    ELSE LET rest == get_applied_transforms_skips(Tail(applied), ignore_intensity,
                                                  image_interpolation)
         IN IF \/ applied[1][1] \notin KnownTransforms
               \/ ignore_intensity /\ IsIntensityTransform(applied[1][1])
            THEN rest
            ELSE [raised |-> "none",
                  value |-> <<Instance(applied[1][1], applied[1][2])>> \o rest.value]

\* Subject.get_applied_transforms(ignore_intensity, image_interpolation) over the
\* records of applied_transforms: [raised, value].  image_interpolation is
\* "None" or an interpolation name.
RECURSIVE get_applied_transforms(_, _, _)
get_applied_transforms(applied, ignore_intensity, image_interpolation) ==
    IF applied = <<>>
    THEN [raised |-> "none", value |-> <<>>]
    ELSE LET transform_name == applied[1][1]
             transform == Instance(transform_name, applied[1][2])
             resamples == HasImageInterpolation(transform_name)
             parsed == IF resamples /\ image_interpolation # "None"
                       THEN [transform EXCEPT !.image_interpolation = image_interpolation]
                       ELSE transform
             rest == get_applied_transforms(Tail(applied), ignore_intensity,
                                            image_interpolation)
         IN IF transform_name \notin KnownTransforms
            THEN [raised |-> "KeyError", value |-> <<>>]
            ELSE IF rest.raised # "none"
            THEN rest
            ELSE IF ignore_intensity /\ IsIntensityTransform(transform_name)
            THEN rest
            ELSE [raised |-> "none", value |-> <<parsed>> \o rest.value]

\* Compose(transforms).inverse(warn): the inverses of the invertible transforms,
\* in reverse order.
RECURSIVE ComposeInverse(_)
ComposeInverse(transforms) ==
    IF transforms = <<>>
    THEN <<>>
    ELSE ComposeInverse(Tail(transforms))
         \o (IF IsInvertible(transforms[1].name) THEN <<transforms[1]>> ELSE <<>>)

\* The history records the application of `transforms` appends, one
\* add_transform call per transform.
Records(transforms) ==
    [i \in 1..Len(transforms) |-> <<transforms[i].name, transforms[i].args>>]

\* inverse_transform(self): the transforms are applied to a copy of the Subject,
\* each recording itself in the copy's history.
ComposeCall(sub, h, L, transforms) ==
    LET c == deepcopy(sub, h, L)
    IN [c EXCEPT !.lists = [c.lists EXCEPT ![c.sub.hist] = @ \o Records(transforms)]]

\* Subject.get_applied_transforms, called on a Subject
history(s, ignore_intensity, image_interpolation) ==
    /\ s \in DOMAIN subjects
    /\ UNCHANGED <<subjects, images, lists>>
    /\ LET r == get_applied_transforms(lists[subjects[s].hist], ignore_intensity,
                                       image_interpolation)
       IN Done("get_applied_transforms", s, r.raised, r.value)

\* Subject.apply_inverse_transform(**kwargs); the caller binds the Subject
\* returned to `ret`.
apply_inverse_transform(s, ignore_intensity, image_interpolation) ==
    /\ s \in DOMAIN subjects
    /\ LET r == get_applied_transforms(lists[subjects[s].hist], ignore_intensity,
                                       image_interpolation)
           transformed == ComposeCall(subjects[s], images, lists, ComposeInverse(r.value))
           cleared == Rebound(transformed.sub, transformed.lists)
       IN IF r.raised # "none"
          THEN Failed("apply_inverse_transform", s, r.raised)
          ELSE /\ Commit(("ret" :> cleared.sub) @@ subjects, transformed.images,
                         cleared.lists)
               /\ Done("apply_inverse_transform", s, "none", <<>>)

-----------------------------------------------------------------------------
(* UniformSampler._generate_patches: a generator.  `gen` holds the sampler's   *)
(* patch_size, the generator's frame (num_patches, valid_range, patches_left)  *)
(* and its position: "none" (no generator yet), "created" (body not started),  *)
(* "suspended" (at the yield), "done" (returned) or "raised".                  *)

\* Subject.spatial_shape, once the consistency check has passed
spatial_shape(sub, h) == get_first_image(sub, h).shape

\* valid_range = subject.spatial_shape - self.patch_size
ValidRange(shape, patch_size) == [a \in 1..3 |-> shape[a] - patch_size[a]]

\* randint with its upper end included
randint_inclusive(high) == 0..high

\* torch.randint(high, (1,)): the integers it can return; none when it raises
randint(high) == 0..(high - 1)

\* PatchSampler.extract_patch(subject, index_ini): the box the Subject returned
\* is cropped to.
extract_patch(index_ini, patch_size) ==
    [index_ini |-> index_ini,
     index_fin |-> [a \in 1..3 |-> index_ini[a] + patch_size[a]]]

\* patches_left = num_patches if num_patches is not None else True
\* (True is the integer 1)
Started(g, shape) ==
    [g EXCEPT !.valid_range = ValidRange(shape, g.patch_size),
              !.patches_left = IF g.counted THEN g.num_patches ELSE 1]

\* the generator resumed without counting the patch it yielded
ResumedUncounted(g) == g

\* the generator resumed counting down whether or not num_patches was given
ResumedCounting(g) == [g EXCEPT !.patches_left = @ - 1]

\* after the yield: if num_patches is not None: patches_left -= 1
Resumed(g) ==
    [g EXCEPT !.patches_left = IF g.counted THEN @ - 1 ELSE @]

\* while patches_left:
LoopCondition(g) == g.patches_left # 0

NoGenerator(patch_size) ==
    [state |-> "none", patch_size |-> patch_size, counted |-> FALSE, num_patches |-> 0,
     valid_range |-> <<0, 0, 0>>, patches_left |-> 0, index_ini |-> <<0, 0, 0>>,
     yielded |-> 0, draws |-> 0, extracts |-> 0, pulls |-> 0]

\* sampler._generate_patches(subject, num_patches): only builds the generator.
generate_patches(counted, num_patches) ==
    /\ gen' = [NoGenerator(gen.patch_size) EXCEPT !.state = "created",
                                                  !.counted = counted,
                                                  !.num_patches = num_patches]
    /\ UNCHANGED <<subjects, images, lists>>
    /\ Done("_generate_patches", "self", "none", <<>>)

\* next(generator) on a generator that has returned or raised
next_exhausted ==
    /\ gen.state \in {"done", "raised"}
    /\ UNCHANGED <<gen, subjects, images, lists>>
    /\ Done("next", "self", "StopIteration", <<>>)

\* next(generator): run the body up to the next yield, its return or its raise.
next ==
    /\ gen.state \in {"created", "suspended"}
    /\ UNCHANGED <<subjects, images, lists>>
    /\ LET first == gen.state = "created"
           sub == subjects["self"]
           g == [(IF first THEN Started(gen, spatial_shape(sub, images)) ELSE Resumed(gen))
                    EXCEPT !.pulls = @ + 1]
       IN IF first /\ check_consistent_spatial_shape_raises(sub, images)
          THEN /\ gen' = [gen EXCEPT !.state = "raised", !.pulls = @ + 1]
               /\ Done("next", "self", "RuntimeError", <<>>)
          ELSE IF ~LoopCondition(g)
          THEN /\ gen' = [g EXCEPT !.state = "done"]
               /\ Done("next", "self", "StopIteration", <<>>)
          ELSE IF \E a \in 1..3 : randint(g.valid_range[a] + 1) = {}
          THEN /\ gen' = [g EXCEPT !.state = "raised"]
               /\ Done("next", "self", "RuntimeError", <<>>)
          ELSE \E i \in randint(g.valid_range[1] + 1),
                  j \in randint(g.valid_range[2] + 1),
                  k \in randint(g.valid_range[3] + 1) :
                  /\ gen' = [g EXCEPT !.state = "suspended",
                                      !.index_ini = <<i, j, k>>,
                                      !.draws = @ + 1,
                                      !.extracts = @ + 1,
                                      !.yielded = @ + 1]
                  /\ Done("next", "self", "none",
                          <<extract_patch(<<i, j, k>>, g.patch_size)>>)

-----------------------------------------------------------------------------
(* Inputs *)

SubjectNames == {"self", "ret"}

ImageArg(key, type, shape) ==
    [key |-> key, kind |-> "image", type |-> type, shape |-> shape, val |-> <<>>]
MetaArg(key, kind, val) ==
    [key |-> key, kind |-> kind, type |-> "", shape |-> <<>>, val |-> val]

\* Mappings of at most n entries over `entries`, no key twice.
Mappings(entries, n) ==
    {m \in UNION {[1..l -> entries] : l \in 0..n} :
        \A i, j \in 1..Len(m) : i # j => m[i].key # m[j].key}

\* Spatial shapes: a small one, and three large ones that differ by less than
\* the tolerance allows at that magnitude.
WideShapes ==
    {<<2, 2, 2>>, <<1999998, 2, 2>>, <<2000000, 2, 2>>, <<2000002, 2, 2>>}

Age == MetaArg("age", "int", <<45>>)
Name == MetaArg("name", "str", <<74, 111>>)

Items ==
    {[kind |-> "slice", lo |-> 0, hi |-> 1],
     [kind |-> "int", lo |-> 0, hi |-> 1],
     [kind |-> "tuple", lo |-> 0, hi |-> 1]}

EmptyResult == Outcome("none", "self", "none", <<>>)

NoSampler == NoGenerator(<<1, 1, 1>>)

-----------------------------------------------------------------------------
(* Spec: one Subject's life.  It is constructed from a mapping, images are     *)
(* added and removed, its spatial shapes are checked.                          *)

LifeEntries ==
    {ImageArg("t1", INTENSITY, sh) : sh \in WideShapes}
    \cup {ImageArg("seg", LABEL, sh) : sh \in WideShapes}
    \cup {Age}

LifeImages == {[type |-> LABEL, shape |-> sh, data |-> 0] : sh \in WideShapes}

Init ==
    /\ subjects = <<>>
    /\ images = <<>>
    /\ lists = <<>>
    /\ result = EmptyResult
    /\ calls = <<>>
    /\ gen = NoSampler

Next ==
    \/ \E m \in Mappings(LifeEntries, MaxInit) :
          SubjectInit(m) /\ UNCHANGED <<calls, gen>>
    \/ \E img \in LifeImages, k \in {"t1", "pet"} :
          add_image("self", TRUE, img, TRUE, k) /\ UNCHANGED <<calls, gen>>
    \/ \E isImage, nameIsStr \in BOOLEAN :
          /\ ~(isImage /\ nameIsStr)
          /\ add_image("self", isImage, CHOOSE img \in LifeImages : TRUE, nameIsStr, "t1")
          /\ UNCHANGED <<calls, gen>>
    \/ \E k \in {"t1", "seg", "pet", "age"} :
          remove_image("self", k) /\ UNCHANGED <<calls, gen>>
    \/ check_consistent_spatial_shape("self") /\ UNCHANGED <<calls, gen>>

Spec == Init /\ [][Next]_vars

-----------------------------------------------------------------------------
(* SpecIndex: a constructed Subject is indexed spatially, and the Subject      *)
(* returned is changed and indexed again.                                      *)

T1(shape) == ImageArg("t1", INTENSITY, shape)
Seg(shape) == ImageArg("seg", LABEL, shape)

IndexMappings ==
    {<<T1(<<3, 2, 2>>)>>,
     <<T1(<<3, 2, 2>>), Seg(<<3, 2, 2>>)>>,
     <<Seg(<<2, 2, 2>>), T1(<<3, 2, 2>>)>>,
     <<T1(<<3, 2, 2>>), Age>>,
     <<Age, T1(<<2, 2, 2>>)>>,
     <<T1(<<2, 2, 2>>), Name>>,
     <<Name, Seg(<<3, 2, 2>>), T1(<<3, 2, 2>>)>>}

NewImage == [type |-> INTENSITY, shape |-> <<2, 2, 2>>, data |-> 0]

\* A Subject as construction leaves it, with `applied` recorded by add_transform.
Start(m, applied) ==
    LET c == Constructed(m, <<>>, <<>>)
    IN /\ ~c.raises
       /\ subjects = ("self" :> c.sub)
       /\ images = c.images
       /\ lists = [c.lists EXCEPT ![c.sub.hist] = applied]
       /\ result = EmptyResult

InitIndex ==
    /\ \E m \in IndexMappings, applied \in {<<>>, <<<<"Flip", 1>>>>} : Start(m, applied)
    /\ calls = <<>>
    /\ gen = NoSampler

NextIndex ==
    \/ \E s \in SubjectNames, item \in Items :
          getitem(s, item) /\ UNCHANGED <<calls, gen>>
    \/ \E k \in {"t1", "seg"} :
          add_image("ret", TRUE, NewImage, TRUE, k) /\ UNCHANGED <<calls, gen>>
    \/ \E k \in {"t1", "seg", "name"} :
          remove_image("ret", k) /\ UNCHANGED <<calls, gen>>
    \/ \E k \in {"t1", "seg"} :
          set_data("ret", k, 1) /\ UNCHANGED <<calls, gen>>
    \/ /\ "ret" \in DOMAIN subjects
       /\ Len(lists[subjects["ret"].hist]) < MaxHist
       /\ add_transform("ret", "Mask", 2)
       /\ UNCHANGED <<calls, gen>>
    \/ clear_history("ret") /\ UNCHANGED <<calls, gen>>

SpecIndex == InitIndex /\ [][NextIndex]_vars

-----------------------------------------------------------------------------
(* SpecHistory: transforms are recorded in a Subject's history, the history    *)
(* is cleared, read back and inverted.  `calls` logs, per Subject, the history *)
(* it was created with (base) and the calls made on it since (log).            *)

Transforms == {<<"Mask", 1>>, <<"Flip", 1>>, <<"Affine", 2>>, <<"Ghost", 1>>}

Interpolations == {"None", "nearest"}

AddCall(name, parameters) ==
    [call |-> "add_transform", name |-> name, parameters |-> parameters]
ClearCall == [call |-> "clear_history", name |-> "", parameters |-> 0]

Logged(s, call) == calls' = [calls EXCEPT ![s].log = Append(@, call)]

InitHistory ==
    /\ Start(<<T1(<<2, 2, 2>>)>>, <<>>)
    /\ calls = ("self" :> [base |-> <<>>, log |-> <<>>])
    /\ gen = NoSampler

NextHistory ==
    \/ \E t \in Transforms :
          /\ Len(calls["self"].log) < MaxCalls
          /\ add_transform("self", t[1], t[2])
          /\ Logged("self", AddCall(t[1], t[2]))
          /\ UNCHANGED gen
    \/ /\ Len(calls["self"].log) < MaxCalls
       /\ clear_history("self")
       /\ Logged("self", ClearCall)
       /\ UNCHANGED gen
    \/ \E s \in SubjectNames, ignore_intensity \in BOOLEAN, interp \in Interpolations :
          history(s, ignore_intensity, interp) /\ UNCHANGED <<calls, gen>>
    \/ \E s \in SubjectNames, ignore_intensity \in BOOLEAN :
          /\ apply_inverse_transform(s, ignore_intensity, "None")
          /\ LET applied == lists[subjects[s].hist]
                 r == get_applied_transforms(applied, ignore_intensity, "None")
                 inverse == Records(ComposeInverse(r.value))
             IN calls' =
                  IF r.raised # "none"
                  THEN calls
                  ELSE ("ret" :>
                          [base |-> applied,
                           log |-> [i \in 1..Len(inverse) |->
                                      AddCall(inverse[i][1], inverse[i][2])]
                                   \o <<ClearCall>>]) @@ calls
          /\ UNCHANGED gen

SpecHistory == InitHistory /\ [][NextHistory]_vars

-----------------------------------------------------------------------------
(* SpecSampler: a UniformSampler with some patch_size generates patches of a   *)
(* Subject; the caller pulls them one at a time, and may ask for a new         *)
(* generator at any time.                                                      *)

MaxPatchSize == 2   \* largest patch_size on an axis

SamplerMappings ==
    {<<T1(<<4, 4, 4>>)>>,
     <<T1(<<3, 2, 1>>), Seg(<<3, 2, 1>>)>>,
     <<T1(<<4, 4, 4>>), Seg(<<3, 2, 1>>)>>}

InitSampler ==
    /\ \E m \in SamplerMappings : Start(m, <<>>)
    /\ calls = <<>>
    /\ \E patch_size \in [1..3 -> 1..MaxPatchSize] : gen = NoGenerator(patch_size)

NextSampler ==
    \/ generate_patches(FALSE, 0) /\ UNCHANGED calls
    \/ \E num_patches \in (-1)..MaxPatches :
          generate_patches(TRUE, num_patches) /\ UNCHANGED calls
    \/ gen.pulls < MaxPulls /\ next /\ UNCHANGED calls
    \/ next_exhausted /\ UNCHANGED calls

SpecSampler == InitSampler /\ [][NextSampler]_vars

-----------------------------------------------------------------------------
(* What the claims read *)

\* The images of a Subject, in insertion order, read off the mapping directly.
ImagesOf(s) ==
    LET d == subjects[s].items
        idx == {i \in 1..Len(d) : d[i].value.kind = "image"}
    IN [n \in 1..Cardinality(idx) |-> images[d[NthOf(idx, n - 1)].value.ref]]

\* applied_transforms of a Subject
AppliedTransforms(s) == lists[subjects[s].hist]

\* The history a call log stands for: the add_transform calls after the last
\* clear_history, after the history the Subject was created with when it was
\* never cleared.
ExpectedHistory(c) ==
    LET clears == {i \in 1..Len(c.log) : c.log[i].call = "clear_history"}
        last == IF clears = {} THEN 0 ELSE CHOOSE i \in clears : \A j \in clears : j <= i
        since == SubSeq(c.log, last + 1, Len(c.log))
    IN (IF last = 0 THEN c.base ELSE <<>>)
       \o [i \in 1..Len(since) |-> <<since[i].name, since[i].parameters>>]

-----------------------------------------------------------------------------
(* C1: every Subject holds at least one Image: a construction from a mapping   *)
(* without an Image fails and leaves no Subject, and a constructed Subject     *)
(* still holds an Image after any add_image and remove_image calls.            *)
C1_AtLeastOneImage ==
    /\ \A s \in DOMAIN subjects : Len(ImagesOf(s)) >= 1
    /\ (result.op = "__init__" /\ result.raised # "none") => subjects = <<>>

(* C2: applied_transforms is, in call order, exactly the (name, parameters)    *)
(* pairs of the add_transform calls made since the last clear_history (or      *)
(* since the Subject was created).                                             *)
C2_HistoryIsCallsSinceClear ==
    \A s \in DOMAIN subjects : AppliedTransforms(s) = ExpectedHistory(calls[s])

\* Two different transforms recorded after a clear_history that followed a record
C2_Witness ==
    /\ Len(calls["self"].log) >= 4
    /\ calls["self"].log[1].call = "add_transform"
    /\ calls["self"].log[2].call = "clear_history"
    /\ Len(AppliedTransforms("self")) = 2
    /\ AppliedTransforms("self")[1] # AppliedTransforms("self")[2]

(* C3: the Subject apply_inverse_transform returns has an empty history,       *)
(* whatever the history before the call, also when the Subject inverted is     *)
(* itself the result of an inversion.                                          *)
C3_InverseHasEmptyHistory ==
    (result.op = "apply_inverse_transform" /\ result.raised = "none")
        => AppliedTransforms("ret") = <<>>

\* An inversion of a history of two invertible transforms
C3_Witness ==
    /\ result.op = "apply_inverse_transform"
    /\ result.raised = "none"
    /\ result.on = "self"
    /\ Len(AppliedTransforms("self")) >= 2
    /\ \A i \in 1..Len(AppliedTransforms("self")) :
          IsInvertible(AppliedTransforms("self")[i][1])
    /\ AppliedTransforms("ret") = <<>>

(* C4: when the history holds, at any position, a record whose name is no      *)
(* known Transform, get_applied_transforms raises instead of returning a list, *)
(* for every ignore_intensity and image_interpolation, and the call leaves     *)
(* applied_transforms as it was.                                               *)
C4_UnknownTransformRaises ==
    [][(/\ result'.op = "get_applied_transforms"
        /\ result'.on \in DOMAIN subjects
        /\ \E i \in 1..Len(AppliedTransforms(result'.on)) :
              AppliedTransforms(result'.on)[i][1] \notin KnownTransforms)
       => /\ result'.raised = "KeyError"
          /\ result'.value = <<>>
          /\ subjects' = subjects
          /\ lists' = lists]_vars

\* The call raised on a history whose first record is known and whose last is not
C4_Witness ==
    /\ result.op = "get_applied_transforms"
    /\ result.raised = "KeyError"
    /\ Len(AppliedTransforms(result.on)) >= 2
    /\ AppliedTransforms(result.on)[1][1] \in KnownTransforms
    /\ AppliedTransforms(result.on)[Len(AppliedTransforms(result.on))][1]
          \notin KnownTransforms


-----------------------------------------------------------------------------
(* The sampler's precondition: the images of the Subject share one spatial     *)
(* shape, and patch_size fits in it on every axis.                             *)
SubjectShape == ImagesOf("self")[1].shape

PatchFits ==
    /\ \A i \in 1..Len(ImagesOf("self")) : ImagesOf("self")[i].shape = SubjectShape
    /\ \A a \in 1..3 : gen.patch_size[a] <= SubjectShape[a]

(* C5, as claimed: for every integer num_patches the generator yields exactly  *)
(* num_patches Subjects and then terminates: it never yields a Subject beyond  *)
(* the num_patches-th, and once it has returned it has yielded num_patches.    *)
C5_YieldsExactlyNumPatches ==
    (gen.counted /\ gen.state # "none" /\ PatchFits)
        => /\ (gen.yielded > 0 => gen.yielded <= gen.num_patches)
           /\ (gen.state = "done" => gen.yielded = gen.num_patches)

(* C5, amended: for every integer num_patches >= 0 the generator yields on     *)
(* each of the first num_patches pulls and returns on the next one, without    *)
(* raising; a new call starts again from no patch yielded.                     *)
C5_YieldsExactlyNonNegative ==
    (gen.counted /\ gen.num_patches >= 0 /\ gen.state # "none" /\ PatchFits)
        => /\ gen.state # "raised"
           /\ (gen.state = "created" <=> gen.pulls = 0)
           /\ (gen.pulls <= gen.num_patches
                 => gen.yielded = gen.pulls /\ gen.state # "done")
           /\ (gen.pulls > gen.num_patches
                 => /\ gen.pulls = gen.num_patches + 1
                    /\ gen.yielded = gen.num_patches
                    /\ gen.state = "done")

\* A generator asked for two patches has yielded two and returned
C5_Witness ==
    /\ gen.counted
    /\ gen.num_patches = 2
    /\ PatchFits
    /\ gen.state = "done"
    /\ gen.yielded = 2
    /\ result.raised = "StopIteration"

(* C6: with num_patches=None the generator never returns: every pull yields a  *)
(* cropped Subject without raising, after exactly one anchor draw and one      *)
(* extract_patch call of its own.                                              *)
C6_UnboundedStream ==
    (~gen.counted /\ gen.state # "none" /\ PatchFits)
        => /\ gen.state \in {"created", "suspended"}
           /\ (gen.state = "created" <=> gen.pulls = 0)
           /\ gen.yielded = gen.pulls
           /\ gen.draws = gen.pulls
           /\ gen.extracts = gen.pulls
           /\ (result.op = "next" => result.raised = "none" /\ Len(result.value) = 1)

\* The third pull of an unbounded generator has yielded
C6_Witness ==
    /\ ~gen.counted
    /\ PatchFits
    /\ gen.state = "suspended"
    /\ gen.pulls >= 3
    /\ gen.yielded = gen.pulls
    /\ result.op = "next"

(* C7: when patch_size fits, the anchors the sampler can draw on an axis are   *)
(* exactly the origins that keep the patch inside the volume, and the anchor   *)
(* passed to extract_patch is one of them on every axis.                       *)
C7_AnchorsAreValidOrigins ==
    (gen.state = "suspended" /\ PatchFits)
        => \A a \in 1..3 :
              /\ randint(gen.valid_range[a] + 1)
                    = {x \in 0..SubjectShape[a] : x + gen.patch_size[a] <= SubjectShape[a]}
              /\ gen.index_ini[a] >= 0
              /\ gen.index_ini[a] + gen.patch_size[a] <= SubjectShape[a]
              /\ result.value[1].index_ini = gen.index_ini
              /\ result.value[1].index_fin[a] <= SubjectShape[a]

\* Shape (4, 4, 4), patch_size (2, 2, 2): an anchor at the far end of one axis,
\* the near end of another and the middle of the third
C7_Witness ==
    /\ gen.state = "suspended"
    /\ PatchFits
    /\ SubjectShape = <<4, 4, 4>>
    /\ gen.patch_size = <<2, 2, 2>>
    /\ gen.index_ini = <<2, 0, 1>>

-----------------------------------------------------------------------------
\* A Subject as its user sees it: keys in order, each value with the Image it
\* refers to read from the heap, the attributes, the history.
View(s) ==
    LET sub == subjects[s]
        seen(v) == IF v.kind = "image"
                   THEN [kind |-> "image", image |-> images[v.ref], val |-> <<>>]
                   ELSE [kind |-> v.kind, image |-> <<>>, val |-> v.val]
    IN [keys |-> [i \in 1..Len(sub.items) |-> sub.items[i].key],
        values |-> [i \in 1..Len(sub.items) |-> seen(sub.items[i].value)],
        attrs |-> [k \in DOMAIN sub.attrs |-> seen(sub.attrs[k])],
        applied_transforms |-> lists[sub.hist]]

(* C8: spatial indexing returns a deep copy: the indexing call, and every      *)
(* later change of the Subject it returned (an image's data, add_transform,    *)
(* clear_history, add_image, remove_image, indexing it again), leave the       *)
(* original's keys, image data, metadata and applied_transforms as they were.  *)
C8_IndexingCopiesDeeply ==
    [][View("self")' = View("self")]_vars

\* The Subject returned has had an image's data changed, an image removed and a
\* transform recorded, and differs from the original in all three
C8_Witness ==
    /\ "ret" \in DOMAIN subjects
    /\ \E i \in 1..Len(ImagesOf("ret")) : ImagesOf("ret")[i].data = 1
    /\ \A i \in 1..Len(ImagesOf("self")) : ImagesOf("self")[i].data = 0
    /\ Len(ImagesOf("ret")) < Len(ImagesOf("self"))
    /\ Len(AppliedTransforms("ret")) > Len(AppliedTransforms("self"))
    /\ Len(AppliedTransforms("self")) = 1

-----------------------------------------------------------------------------
\* Image i differs from the earlier image j beyond tolerance
Differs(s, i, j) == ~AllClose(ImagesOf(s)[i].shape, ImagesOf(s)[j].shape)

(* C9, as claimed: check_consistent_spatial_shape raises exactly when some two *)
(* images of the Subject have spatial shapes differing beyond tolerance.       *)
C9_RaisesIffSomePairDiffers ==
    result.op = "check_consistent_spatial_shape"
        => (result.raised = "RuntimeError"
              <=> \E i, j \in 1..Len(ImagesOf("self")) : j < i /\ Differs("self", i, j))

(* C9, as implemented: the check raises exactly when some image,               *)
(* intensity or label, has a spatial shape that is not within tolerance of the *)
(* first image's; metadata entries play no part, and the call changes nothing  *)
(* in the Subject.                                                             *)
C9_RaisesIffSomeImageDiffersFromFirst ==
    [][result'.op = "check_consistent_spatial_shape"
         => /\ result'.raised \in {"none", "RuntimeError"}
            /\ (result'.raised = "RuntimeError"
                  <=> \E i \in 2..Len(ImagesOf("self")) : Differs("self", i, 1))
            /\ subjects' = subjects
            /\ images' = images
            /\ lists' = lists]_vars

\* The check raised on a Subject whose mapping starts with metadata: the second
\* image agrees with the first, an intensity image, and the third, a label map,
\* does not
C9_Witness ==
    /\ result.op = "check_consistent_spatial_shape"
    /\ result.raised = "RuntimeError"
    /\ subjects["self"].items[1].key = "age"
    /\ Len(ImagesOf("self")) = 3
    /\ ImagesOf("self")[1].type = INTENSITY
    /\ ImagesOf("self")[2].shape = ImagesOf("self")[1].shape
    /\ ImagesOf("self")[3].type = LABEL
    /\ Differs("self", 3, 1)

-----------------------------------------------------------------------------
(* C10: for a Subject whose images share one spatial shape, subject[index]     *)
(* succeeds and returns a Subject with the same keys in the same order, every  *)
(* Image entry being that image indexed by the same index and every metadata   *)
(* entry having the value it has in the original.                              *)
C10_IndexingKeepsMetadata ==
    (/\ result.op = "__getitem__"
     /\ result.on = "self"
     /\ \A i \in 1..Len(ImagesOf("self")) : ImagesOf("self")[i].shape = SubjectShape)
        => /\ result.raised = "none"
           /\ LET item == result.value[1]
                  old == subjects["self"].items
                  new == subjects["ret"].items
              IN /\ Len(new) = Len(old)
                 /\ \A i \in 1..Len(old) :
                       /\ new[i].key = old[i].key
                       /\ new[i].value.kind = old[i].value.kind
                       /\ IF old[i].value.kind = "image"
                          THEN images[new[i].value.ref]
                                  = ImageGetItem(images[old[i].value.ref], item)
                          ELSE new[i].value = old[i].value

-----------------------------------------------------------------------------
\* The attribute named k of Subject s exists and is the object the mapping holds
\* under k: the same Image, or the same metadata value.
Mirrors(s, k) ==
    /\ k \in DOMAIN subjects[s].attrs
    /\ subjects[s].attrs[k] = DictGet(subjects[s].items, k)

(* C11: in every Subject reached through construction, add_image, remove_image *)
(* and spatial indexing, each key of the mapping has an attribute that refers  *)
(* to the object the mapping holds under that key (in the result of indexing,  *)
(* the cropped image), and no attribute is left for a key that was removed.    *)
C11_AttributesMirrorMapping ==
    \A s \in DOMAIN subjects :
        /\ \A k \in DictKeys(subjects[s].items) : Mirrors(s, k)
        /\ DOMAIN subjects[s].attrs \subseteq DictKeys(subjects[s].items)

====
